---- MODULE Spec2Model ----
(***************************************************************************)
(* The stream-backed ingestion pipeline of pulse: the Redis stream with    *)
(* its consumer group (RedisStream), the ingest path (PulseEvent), the     *)
(* drain cycle (EventProcessor.process) and the hot store (storage.py).    *)
(***************************************************************************)
EXTENDS Integers, Sequences, FiniteSets, TLC

\* Bounds of the model: entries appended in the pipeline specification, entries
\* appended in the stream specification, the largest count of a direct read.
MaxEntries == 2
MaxStream == 3
MaxCount == 3
MaxBatch == 2
MaxRows == 3

\* Program constants (pulse/constants.py, pulse/processor.py).
PENDING_MIN_IDLE_MS == 5000
STREAM_MAX_LENGTH == 100000
READ_COUNT == STREAM_MAX_LENGTH \div 2

\* The clock steps of the stream specification: half the idle threshold.
TickMs == PENDING_MIN_IDLE_MS \div 2

\* Worker identities (RQ_WORKER_ID of two worker processes).
Consumers == {"worker_a", "worker_b"}

\* Python's None, and the falsy test `not x` on an optional string.
None == "<None>"
Falsy(x) == x = None \/ x = ""

\* dict.get(k): the value, or None when the key is absent.
Get(d, k) == IF k \in DOMAIN d THEN d[k] ELSE None

\* The empty mapping {}.
EmptyMap == [k \in {} |-> None]

VARIABLES
    stream,         \* the entries ever appended (XADD), by id 1..Len(stream)
    deleted,        \* ids removed from the stream (XDEL)
    lastId,         \* the group's last-delivered id
    pel,            \* the group's pending entries: id -> [owner, idle]
    acked,          \* ids for which an XACK was carried out
    hot,            \* rows of the hot `event` table, in insertion order
    pc,             \* per worker: "idle" or "read" (inside process())
    events,         \* per worker: the entries its read() returned
    lastRead,       \* the phases of the read() that has just returned
    cycle,          \* the outcome of the process() that has just returned
    drained,        \* the last cycle left nothing behind and nothing was appended since
    conn,           \* per worker: its stream object's connection ("none", "absent_*", "ready")
    grp,            \* the stream key and its consumer group exist on the server
    lastInit,       \* the outcome of the first use of a connection that has just ended
    lastStore,      \* the direct call of store_batch_in_duckdb that has just returned
    lastCall,       \* the request to the ingest endpoints that has just been answered
    source,         \* the rows of the reference doctype, in (creation, name) order
    target,         \* the rows of the warehouse table, in insertion order
    job,            \* the Warehouse Sync Job: kind of source, enabled, persisted checkpoint
    lock,           \* the run that holds the file lock duckdb_sync:<table>, or None
    run,            \* per Warehouse Sync Log: its position in sync() and its fields
    whist,          \* what the sync runs did so far
    lastMetric      \* the metric accessor that has just returned or raised

syncVars == <<source, target, job, lock, run, whist>>

vars == <<stream, deleted, lastId, pel, acked, hot, pc, events, lastRead, cycle, drained,
          conn, grp, lastInit, lastStore, lastCall, syncVars, lastMetric>>

connVars == <<conn, grp, lastInit>>

----------------------------------------------------------------------------
\* Helpers on id sets and sequences.

RECURSIVE Ascending(_)
Ascending(S) ==
    IF S = {} THEN <<>>
    ELSE LET m == CHOOSE x \in S : \A y \in S : x <= y
         IN <<m>> \o Ascending(S \ {m})

\* The element of a one-element set.
Only(S) == CHOOSE x \in S : TRUE

Take(s, n) == SubSeq(s, 1, IF n < Len(s) THEN n ELSE Len(s))

Range(s) == {s[k] : k \in 1..Len(s)}

Ids(es) == [k \in 1..Len(es) |-> es[k].id]

----------------------------------------------------------------------------
\* RedisStream: serialize / add.

\* A value that is no string: the integer 5.
Int5 == "int:5"

\* cstr(value): the text of the value; a string is its own text.
cstr(value) == IF value = Int5 THEN "5" ELSE value

\* serialize that also leaves out the empty values.
serialize_drop_empty(data) ==
    [k \in {x \in DOMAIN data : data[x] # None /\ data[x] # ""} |-> cstr(data[k])]

\* serialize(): every value that is not None, as a string.
serialize(data) == [k \in {x \in DOMAIN data : data[x] # None} |-> cstr(data[k])]

----------------------------------------------------------------------------
\* RedisStream: the three read phases over the group state g = [pel, last].

\* A raw entry as the client library returns it: (id, fields); a nil reply
\* is (None, None), written id 0 with mapping FALSE.
Raw(i) == [id |-> i, data |-> IF i \in deleted THEN EmptyMap ELSE stream[i], mapping |-> TRUE]
NilRaw == [id |-> 0, data |-> EmptyMap, mapping |-> FALSE]

\* XREADGROUP ... id "0" that hands back only entries idle for the threshold.
read_pending_idle_only(g, c, count) ==
    LET own == {i \in DOMAIN g.pel : g.pel[i].owner = c /\ g.pel[i].idle >= PENDING_MIN_IDLE_MS}
        ids == Take(Ascending(own), count)
        got == Range(ids) \ deleted
    IN [out |-> [k \in 1..Len(ids) |-> Raw(ids[k])],
        g   |-> [g EXCEPT !.pel = [i \in DOMAIN g.pel |->
                        IF i \in got THEN [owner |-> c, idle |-> 0] ELSE g.pel[i]]]]

\* XREADGROUP ... id "0": the caller's own pending entries, oldest first;
\* delivering a live entry again resets its idle time.
read_pending(g, c, count) ==
    LET own == {i \in DOMAIN g.pel : g.pel[i].owner = c}
        ids == Take(Ascending(own), count)
        got == Range(ids) \ deleted
    IN [out |-> [k \in 1..Len(ids) |-> Raw(ids[k])],
        g   |-> [g EXCEPT !.pel = [i \in DOMAIN g.pel |->
                        IF i \in got THEN [owner |-> c, idle |-> 0] ELSE g.pel[i]]]]

\* XAUTOCLAIM claiming only entries that are already the caller's.
read_stale_own_only(g, c, count, nil) ==
    LET ids == Take(Ascending({i \in DOMAIN g.pel \ deleted :
                                 /\ g.pel[i].idle >= PENDING_MIN_IDLE_MS
                                 /\ g.pel[i].owner = c}), count)
    IN [out |-> [k \in 1..Len(ids) |-> Raw(ids[k])],
        g   |-> [g EXCEPT !.pel = [i \in DOMAIN g.pel |->
                        IF i \in Range(ids) THEN [owner |-> c, idle |-> 0] ELSE g.pel[i]]]]

\* XAUTOCLAIM claiming every pending entry, whatever its idle time.
read_stale_any_idle(g, c, count, nil) ==
    LET ids == Take(Ascending(DOMAIN g.pel \ deleted), count)
    IN [out |-> [k \in 1..Len(ids) |-> Raw(ids[k])],
        g   |-> [g EXCEPT !.pel = [i \in DOMAIN g.pel |->
                        IF i \in Range(ids) THEN [owner |-> c, idle |-> 0] ELSE g.pel[i]]]]

\* XAUTOCLAIM min_idle_time=PENDING_MIN_IDLE_MS start 0-0: pending entries of
\* any consumer idle for at least the threshold, oldest first, become the
\* caller's. A deleted entry is either claimed and answered with nil (nil TRUE)
\* or dropped from the pending list (nil FALSE), depending on the server.
read_stale(g, c, count, nil) ==
    LET stale == {i \in DOMAIN g.pel : g.pel[i].idle >= PENDING_MIN_IDLE_MS}
        cand  == IF nil THEN stale ELSE stale \ deleted
        ids   == Take(Ascending(cand), count)
        last  == IF Len(ids) = 0 THEN 0 ELSE ids[Len(ids)]
        drop  == IF nil THEN {}
                 ELSE {i \in stale \cap deleted : Len(ids) < count \/ i < last}
    IN [out |-> [k \in 1..Len(ids) |-> IF ids[k] \in deleted THEN NilRaw ELSE Raw(ids[k])],
        g   |-> [g EXCEPT !.pel = [i \in DOMAIN g.pel \ drop |->
                        IF i \in Range(ids) THEN [owner |-> c, idle |-> 0] ELSE g.pel[i]]]]

\* XREADGROUP ... id ">": entries never delivered to the group, oldest first.
read_new(g, c, count) ==
    LET fresh == {i \in 1..Len(stream) : i > g.last /\ i \notin deleted}
        ids   == Take(Ascending(fresh), count)
    IN [out |-> [k \in 1..Len(ids) |-> Raw(ids[k])],
        g   |-> IF Len(ids) = 0 THEN g
                ELSE [pel  |-> [i \in DOMAIN g.pel \cup Range(ids) |->
                                  IF i \in Range(ids) THEN [owner |-> c, idle |-> 0] ELSE g.pel[i]],
                      last |-> ids[Len(ids)]]]

\* _normalize_entry(): {"id": ..., "data": ...}.
_normalize_entry(e) == [id |-> e.id, data |-> e.data, mapping |-> e.mapping]

\* read(count) asking every phase for the full count.
read_full_count(g, c, count, failAt, nil) ==
    Only({Only({Only({
        [entries |-> [k \in 1..Len(p.out \o s.out \o n.out) |->
                         _normalize_entry((p.out \o s.out \o n.out)[k])],
         pending |-> Ids(p.out), stale |-> Ids(s.out), new |-> Ids(n.out),
         ranStale |-> TRUE, ranNew |-> TRUE,
         askedStale |-> count, askedNew |-> count,
         consumer |-> c, count |-> count,
         g |-> n.g]
      : n \in {read_new(s.g, c, count)}})
      : s \in {read_stale(p.g, c, count, nil)}})
      : p \in {read_pending(g, c, count)}})

\* read(count): pending, then stale, then new, each asked for the remainder;
\* failAt names the phase whose transport call raises (0: none).
read(g, c, count, failAt, nil) ==
    Only({Only({Only({
        [entries |-> [k \in 1..Len(p.out \o s.out \o n.out) |->
                         _normalize_entry((p.out \o s.out \o n.out)[k])],
         pending |-> Ids(p.out), stale |-> Ids(s.out), new |-> Ids(n.out),
         ranStale |-> failAt # 1 /\ Len(p.out) < count,
         ranNew |-> failAt \notin {1, 2} /\ Len(p.out) + Len(s.out) < count,
         askedStale |-> count - Len(p.out),
         askedNew |-> count - Len(p.out) - Len(s.out),
         consumer |-> c, count |-> count,
         g |-> n.g]
      : n \in {IF failAt \notin {1, 2, 3} /\ Len(p.out) + Len(s.out) < count
               THEN read_new(s.g, c, count - Len(p.out) - Len(s.out))
               ELSE [out |-> <<>>, g |-> s.g]}})
      : s \in {IF failAt \notin {1, 2} /\ Len(p.out) < count
               THEN read_stale(p.g, c, count - Len(p.out), nil)
               ELSE [out |-> <<>>, g |-> p.g]}})
      : p \in {IF failAt = 1 THEN [out |-> <<>>, g |-> g]
               ELSE read_pending(g, c, count)}})

----------------------------------------------------------------------------
\* RedisStream: ack_entries and get_unacknowledged_length.

\* ack_entries acknowledging the first id only.
ack_entries_first_only(g, ids, xackOk) ==
    IF Len(ids) = 0 \/ ~xackOk THEN [g |-> g, done |-> {}]
    ELSE [g    |-> [g EXCEPT !.pel = [i \in DOMAIN g.pel \ {ids[1]} |-> g.pel[i]]],
          done |-> {ids[1]}]

\* ack_entries whose XACK leaves the ids in the pending list.
ack_entries_keep_pending(g, ids, xackOk) ==
    IF Len(ids) = 0 \/ ~xackOk THEN [g |-> g, done |-> {}]
    ELSE [g |-> g, done |-> Range(ids)]

\* ack_entries(ids): nothing on an empty list; XACK removes the ids from the
\* group's pending list whoever owns them; a transport error is logged and
\* swallowed (xackOk FALSE), leaving the pending list as it was.
ack_entries(g, ids, xackOk) ==
    IF Len(ids) = 0 \/ ~xackOk THEN [g |-> g, done |-> {}]
    ELSE [g    |-> [g EXCEPT !.pel = [i \in DOMAIN g.pel \ Range(ids) |-> g.pel[i]]],
          done |-> Range(ids)]

\* get_unacknowledged_length(): pending + lag of the group.
get_unacknowledged_length ==
    Cardinality(DOMAIN pel)
    + Cardinality({i \in 1..Len(stream) : i > lastId /\ i \notin deleted})

----------------------------------------------------------------------------
\* PulseEvent: validate / db_insert.

REQD_FIELDS == {"event_name", "captured_at"}

\* validate(): the required fields that are missing or empty.
validate(doc) == {f \in REQD_FIELDS : Falsy(Get(doc, f))}

\* get_datetime + convert_utc_to_system_timezone + cstr: an ISO-8601 UTC
\* text becomes the text of the same instant in the system time zone.
captured_at_text(t) == IF t = "2025-01-01T00:00:00Z" THEN "2025-01-01 05:30:00+05:30" ELSE t

\* db_insert(): the mapping handed to stream.add.
db_insert(doc) ==
    [event_name  |-> Get(doc, "event_name"),
     captured_at |-> captured_at_text(Get(doc, "captured_at")),
     site        |-> Get(doc, "site"),
     user        |-> Get(doc, "user"),
     app         |-> Get(doc, "app"),
     properties  |-> "{}",
     received_at |-> "now"]

----------------------------------------------------------------------------
\* storage.py: the hot store.

\* The keys store_batch_in_duckdb subscripts on every element of the batch.
StoreKeys == {"event_id", "site_name", "event_name", "app_name", "app_version", "timestamp"}

\* The NOT NULL columns of the `event` table.
NotNullColumns == {"event_id", "site_name", "event_name", "app_name", "timestamp"}

Row(data) ==
    [event_id    |-> data["event_id"],
     site_name   |-> data["site_name"],
     event_name  |-> data["event_name"],
     app_name    |-> data["app_name"],
     app_version |-> data["app_version"],
     timestamp   |-> data["timestamp"],
     additional_data |-> Get(data, "additional_data")]

\* conn.executemany(insert_sql, rows): the rows are inserted one after the
\* other until one has a NULL in a NOT NULL column, which raises.
executemany(rows) ==
    LET bad == {k \in 1..Len(rows) : \E col \in NotNullColumns : rows[k][col] = None}
        n   == IF bad = {} THEN Len(rows)
               ELSE (CHOOSE k \in bad : \A j \in bad : k <= j) - 1
    IN [inserted |-> Take(rows, n), raised |-> bad # {}]

\* _transaction without the rollback: what was inserted before the error stays.
_transaction_no_rollback(inserted, ok) ==
    [rows |-> inserted, raised |-> ~ok]

\* _transaction(conn): BEGIN, the body, COMMIT; on any error (of the body or
\* of COMMIT, ok FALSE) ROLLBACK and re-raise, so nothing inserted is kept.
_transaction(inserted, ok) ==
    [rows |-> IF ok THEN inserted ELSE <<>>, raised |-> ~ok]

\* store_batch_in_duckdb(log_data_list): builds the rows (KeyError on a
\* missing key, before anything is written), returns on an empty list, else
\* runs one multi-row INSERT in one transaction; dbOk FALSE is a database
\* error inside the transaction. Every error is raised to the caller.
store_batch_in_duckdb(batch, dbOk) ==
    IF \E k \in 1..Len(batch) : ~(StoreKeys \subseteq DOMAIN batch[k])
    THEN [raised |-> TRUE, rows |-> <<>>]
    ELSE IF Len(batch) = 0 THEN [raised |-> FALSE, rows |-> <<>>]
    ELSE Only({_transaction(ins.inserted, ~ins.raised /\ dbOk)
                 : ins \in {executemany([k \in 1..Len(batch) |-> Row(batch[k])])}})

----------------------------------------------------------------------------
\* processor.py: EventProcessor.

\* The keys of `data` that _prepare_event leaves out of the overflow map.
FixedKeys == {"site", "name", "app", "app_version", "frappe_version", "created_at"}

\* _prepare_event also skipping an event without a timestamp.
_prepare_event_reqd_timestamp(event) ==
    IF ~event.mapping THEN [tag |-> "raise", entry |-> EmptyMap]
    ELSE IF Falsy(Get(event.data, "site")) \/ Falsy(Get(event.data, "name"))
            \/ Falsy(Get(event.data, "timestamp"))
         THEN [tag |-> "skip", entry |-> EmptyMap]
         ELSE [tag |-> "ok",
               entry |-> [id |-> event.id, site |-> Get(event.data, "site"),
                          name |-> Get(event.data, "name"), app |-> Get(event.data, "app"),
                          app_version |-> Get(event.data, "app_version"),
                          frappe_version |-> Get(event.data, "frappe_version"),
                          created_at |-> Get(event.data, "timestamp"),
                          data |-> [k \in DOMAIN event.data \ FixedKeys |-> event.data[k]]]]

\* _prepare_event(event): raises when data is not a mapping, returns None
\* (tag "skip") when site or name is missing or empty, else the entry.
_prepare_event(event) ==
    IF ~event.mapping THEN [tag |-> "raise", entry |-> EmptyMap]
    ELSE LET data == event.data
             entry == [id             |-> event.id,
                       site           |-> Get(data, "site"),
                       name           |-> Get(data, "name"),
                       app            |-> Get(data, "app"),
                       app_version    |-> Get(data, "app_version"),
                       frappe_version |-> Get(data, "frappe_version"),
                       created_at     |-> Get(data, "timestamp"),
                       data           |-> [k \in DOMAIN data \ FixedKeys |-> data[k]]]
         IN IF Falsy(entry.site) \/ Falsy(entry.name)
            THEN [tag |-> "skip", entry |-> EmptyMap]
            ELSE [tag |-> "ok", entry |-> entry]

Tagged(evs, tag) == SelectSeq(evs, LAMBDA e : _prepare_event(e).tag = tag)

\* _build_batch counting an event whose preparation raised as skipped.
_build_batch_raise_as_skip(evs) ==
    [batch       |-> [k \in 1..Len(Tagged(evs, "ok")) |-> _prepare_event(Tagged(evs, "ok")[k]).entry],
     batch_ids   |-> Ids(Tagged(evs, "ok")),
     skipped_ids |-> Ids(SelectSeq(evs, LAMBDA e : _prepare_event(e).tag \in {"skip", "raise"})),
     failed_ids  |-> <<>>]

\* _build_batch(events): the prepared entries with their ids, the ids of the
\* skipped events and the ids of the events whose preparation raised.
_build_batch(evs) ==
    LET ok == Tagged(evs, "ok")
    IN [batch       |-> [k \in 1..Len(ok) |-> _prepare_event(ok[k]).entry],
        batch_ids   |-> Ids(ok),
        skipped_ids |-> Ids(Tagged(evs, "skip")),
        failed_ids  |-> Ids(Tagged(evs, "raise"))]

\* _store_batch with the ids reported as processed although the store raised.
_store_batch_swallow(batch, batch_ids, dbOk) ==
    [processed_ids |-> batch_ids, failed_ids |-> <<>>,
     rows |-> store_batch_in_duckdb(batch, dbOk).rows,
     raised |-> store_batch_in_duckdb(batch, dbOk).raised]

\* _store_batch(batch, batch_ids): the ids count as processed when the store
\* returned, as failed when it raised; an empty batch is not stored.
_store_batch(batch, batch_ids, dbOk) ==
    IF Len(batch) = 0 THEN [processed_ids |-> <<>>, failed_ids |-> <<>>, rows |-> <<>>, raised |-> FALSE]
    ELSE LET st == store_batch_in_duckdb(batch, dbOk)
         IN IF st.raised
            THEN [processed_ids |-> <<>>, failed_ids |-> batch_ids, rows |-> <<>>, raised |-> TRUE]
            ELSE [processed_ids |-> batch_ids, failed_ids |-> <<>>, rows |-> st.rows, raised |-> FALSE]

\* process() acknowledging every id of the batch whatever the store did.
process_ack_all(evs, dbOk) ==
    LET b  == _build_batch(evs)
        st == _store_batch(b.batch, b.batch_ids, dbOk)
        processed_ids == b.batch_ids \o b.skipped_ids
    IN [read |-> Ids(evs), batch_ids |-> b.batch_ids, skipped_ids |-> b.skipped_ids,
        prep_failed |-> b.failed_ids, failed_ids |-> b.failed_ids \o st.failed_ids,
        processed_ids |-> processed_ids, rows |-> st.rows, storeRaised |-> st.raised,
        ret |-> Len(processed_ids)]

\* process() returning the number of events it read.
process_count_read(evs, dbOk) ==
    LET b  == _build_batch(evs)
        st == _store_batch(b.batch, b.batch_ids, dbOk)
        processed_ids == st.processed_ids \o b.skipped_ids
    IN [read |-> Ids(evs), batch_ids |-> b.batch_ids, skipped_ids |-> b.skipped_ids,
        prep_failed |-> b.failed_ids, failed_ids |-> b.failed_ids \o st.failed_ids,
        processed_ids |-> processed_ids, rows |-> st.rows, storeRaised |-> st.raised,
        ret |-> Len(evs)]

\* process() forgetting the skipped ids when it acknowledges.
process_drop_skipped(evs, dbOk) ==
    LET b  == _build_batch(evs)
        st == _store_batch(b.batch, b.batch_ids, dbOk)
    IN [read |-> Ids(evs), batch_ids |-> b.batch_ids, skipped_ids |-> b.skipped_ids,
        prep_failed |-> b.failed_ids, failed_ids |-> b.failed_ids \o st.failed_ids,
        processed_ids |-> st.processed_ids, rows |-> st.rows, storeRaised |-> st.raised,
        ret |-> Len(st.processed_ids)]

\* process(), after the read: build, store, collect the ids to acknowledge
\* (stored ids, then skipped ids) and the count returned.
process(evs, dbOk) ==
    Only({Only({
        [read          |-> Ids(evs),
         batch_ids     |-> b.batch_ids,
         skipped_ids   |-> b.skipped_ids,
         prep_failed   |-> b.failed_ids,
         failed_ids    |-> b.failed_ids \o st.failed_ids,
         processed_ids |-> st.processed_ids \o b.skipped_ids,
         rows          |-> st.rows,
         storeRaised   |-> st.raised,
         ret           |-> Len(st.processed_ids \o b.skipped_ids)]
      : st \in {_store_batch(b.batch, b.batch_ids, dbOk)}})
      : b \in {_build_batch(evs)}})

----------------------------------------------------------------------------
\* Inputs.

\* Events posted to the ingest endpoint (all pass validate()).
IngestInputs ==
    {[event_name |-> "login", captured_at |-> "2025-01-01T00:00:00Z", site |-> "s1"]}

\* Mappings handed to RedisStream.add directly.
AddInputs ==
    {[site |-> "s1", name |-> "login", timestamp |-> "t1"]}

NoRead == [consumer |-> None, count |-> 0, pending |-> <<>>, stale |-> <<>>, new |-> <<>>,
           ranStale |-> FALSE, ranNew |-> FALSE, askedStale |-> 0, askedNew |-> 0,
           before |-> EmptyMap, beforeLast |-> 0]

NoStore == [called |-> FALSE, batch |-> <<>>, dbOk |-> TRUE, raised |-> FALSE, before |-> <<>>]

NoCall == [op |-> None, api_key |-> None, headers |-> EmptyMap, list |-> TRUE,
           events |-> <<>>, raised |-> None, before |-> <<>>]

NoInit == [consumer |-> None, op |-> None, raised |-> FALSE, swallowed |-> FALSE]

NoCycle == [consumer |-> None, read |-> <<>>, batch_ids |-> <<>>, skipped_ids |-> <<>>,
            prep_failed |-> <<>>, failed_ids |-> <<>>, processed_ids |-> <<>>,
            storeRaised |-> FALSE, dbOk |-> TRUE, xackOk |-> TRUE, readFailed |-> FALSE,
            events |-> <<>>, afterDrained |-> FALSE, ret |-> 0]

\* What a read() that has just returned did; `before` is the pending list it found.
ReadSummary(r) ==
    [consumer |-> r.consumer, count |-> r.count, pending |-> r.pending, stale |-> r.stale,
     new |-> r.new, ranStale |-> r.ranStale, ranNew |-> r.ranNew,
     askedStale |-> r.askedStale, askedNew |-> r.askedNew, before |-> pel,
     beforeLast |-> lastId]

Group == [pel |-> pel, last |-> lastId]

----------------------------------------------------------------------------
\* Warehouse sync: the source fetch, the anti-join insert and the run record.

MaxSource == 3
MaxCreation == 2
MaxBatchSize == 2

Runs == {"run_1", "run_2"}

\* The largest / smallest member of a non-empty set of integers.
Max(S) == CHOOSE x \in S : \A y \in S : y <= x

\* The rows of a sequence whose name is (not) in a set of names.
WithNames(rows, names) ==
    LET Test(row) == row.name \in names
    IN SelectSeq(rows, Test)

\* get_etl_batch(doctype, checkpoint, batch_size). A row-store doctype:
\* frappe.get_all ordered by (creation, name), filtered by creation > checkpoint
\* when the checkpoint is set (0 stands for None), limited to batch_size.
\* Pulse Event: XRANGE from min_id = checkpoint, which includes that entry.
get_etl_batch(kind, rows, checkpoint, batch_size) ==
    IF kind = "rows"
    THEN Take(WithNames(rows, {rows[k].name : k \in {j \in 1..Len(rows) :
                  checkpoint = 0 \/ rows[j].creation > checkpoint}}), batch_size)
    ELSE Take(WithNames(rows, {rows[k].name : k \in {j \in 1..Len(rows) :
                  checkpoint = 0 \/ rows[j].name >= checkpoint}}), batch_size)

\* should_sync(): the job is enabled and one row is fetched after the checkpoint.
should_sync(j, rows) ==
    j.enabled /\ get_etl_batch(j.kind, rows, j.checkpoint, 1) # <<>>

\* The creation_key column of the job: creation, or name (the entry id) for
\* Pulse Event.
creation_key(kind, row) == IF kind = "rows" THEN row.creation ELSE row.name

\* _insert_batch without the anti-join: the whole batch is inserted.
_insert_batch_no_anti_join(kind, tgt, batch, failAt) ==
    [target        |-> IF failAt = "insert" THEN tgt ELSE tgt \o batch,
     insert_count  |-> IF failAt = "insert" THEN 0 ELSE Len(batch),
     persisted     |-> failAt = "none",
     checkpoint    |-> IF failAt = "none"
                       THEN Max({creation_key(kind, batch[k]) : k \in 1..Len(batch)})
                       ELSE 0,
     raised        |-> failAt # "none"]

\* _insert_batch that persists the checkpoint before it inserts.
_insert_batch_persist_first(kind, tgt, batch, failAt) ==
    [target        |-> IF failAt = "insert" THEN tgt
                       ELSE tgt \o WithNames(batch, {batch[k].name : k \in 1..Len(batch)}
                                                    \ {tgt[k].name : k \in 1..Len(tgt)}),
     insert_count  |-> 0,
     persisted     |-> TRUE,
     checkpoint    |-> Max({creation_key(kind, batch[k]) : k \in 1..Len(batch)}),
     raised        |-> failAt # "none"]

\* _insert_batch(df): the rows of the batch whose primary key is not in the
\* target are inserted, then the largest creation_key of the batch is
\* persisted as checkpoint. failAt says which call raises: the warehouse
\* (anti-join, count, insert), the write of the checkpoint, or none.
_insert_batch(kind, tgt, batch, failAt) ==
    IF failAt = "insert"
    THEN [target |-> tgt, insert_count |-> 0, persisted |-> FALSE, checkpoint |-> 0,
          raised |-> TRUE]
    ELSE Only({[target       |-> tgt \o diff,
                insert_count |-> Len(diff),
                persisted    |-> failAt = "none",
                checkpoint   |-> IF failAt = "none"
                                 THEN Max({creation_key(kind, batch[k]) : k \in 1..Len(batch)})
                                 ELSE 0,
                raised       |-> failAt # "none"]
               : diff \in {WithNames(batch, {batch[k].name : k \in 1..Len(batch)}
                                             \ {tgt[k].name : k \in 1..Len(tgt)})}})

\* filelock(lock_name): the lock is granted when no run holds it.
filelock_free(holder) == holder = None

\* The drain loop ends after a batch shorter than batch_size.
loop_done(batch, batch_size) == Len(batch) < batch_size

NoRun == [pc |-> "queued", status |-> "Queued", checkpoint |-> 0, batch_size |-> 0,
          batch |-> <<>>, total_inserted |-> 0, log |-> None,
          startTarget |-> <<>>, startCheckpoint |-> 0, rerun |-> FALSE]

NoHist == [initial |-> 0, maxCompleted |-> 0, completed |-> FALSE, persistedBatch |-> <<>>,
           insertedBatch |-> <<>>,
           appended |-> FALSE]

\* The value of a metric accessor: an integer, None, a list (n its length)
\* or the dict of get_stats (n its events_in_stream).
V(type, n) == [type |-> type, n |-> n]

NoMetric == [name |-> None, redisOk |-> TRUE, dbOk |-> TRUE, raised |-> FALSE, value |-> V("none", 0)]

\* XLEN: the entries of the stream that are not deleted.
xlen == Cardinality({i \in 1..Len(stream) : i \notin deleted})

\* The consumers XINFO CONSUMERS lists: those that own a pending entry.
xinfo_consumers == {c \in Consumers : \E i \in DOMAIN pel : pel[i].owner = c}

\* with suppress(Exception): / try ... except Exception: the value of the
\* body, or the fallback when the call into the transport or the store raises.
suppress(ok, value, fallback) ==
    [raised |-> FALSE, value |-> IF ok THEN value ELSE fallback]

Accessors == {"get_length", "get_unacknowledged_length", "get_memory_usage",
              "get_entries_per_interval", "get_consumers", "get_db_size", "get_stats"}

\* The metric accessors. redisOk / dbOk FALSE: every call of the accessor
\* into the stream transport / the hot store raises. Memory is counted as
\* one unit per entry, the store's file size as one unit per row, and the
\* interval of get_entries_per_interval spans the whole stream.
\* get_consumers calls the transport outside any handler.
metric(name, redisOk, dbOk) ==
    CASE name = "get_length" -> suppress(redisOk, V("int", xlen), V("int", 0))
      [] name = "get_unacknowledged_length" ->
             suppress(redisOk, V("int", get_unacknowledged_length), V("int", 0))
      [] name = "get_memory_usage" -> suppress(redisOk, V("int", xlen), V("none", 0))
      [] name = "get_entries_per_interval" -> suppress(redisOk, V("int", xlen), V("none", 0))
      [] name = "get_db_size" -> suppress(dbOk, V("int", Len(hot)), V("int", 0))
      [] name = "get_stats" -> suppress(redisOk, V("dict", xlen), V("dict", 0))
      [] name = "get_consumers" ->
             IF redisOk
             THEN [raised |-> FALSE, value |-> V("list", Cardinality(xinfo_consumers))]
             ELSE [raised |-> TRUE, value |-> V("none", 0)]

\* No row, no run.
SyncIdle ==
    /\ source = <<>>
    /\ target = <<>>
    /\ job = [kind |-> "rows", enabled |-> TRUE, checkpoint |-> 0]
    /\ lock = None
    /\ run = [r \in Runs |-> NoRun]
    /\ whist = NoHist

----------------------------------------------------------------------------
\* The state machine.

Init ==
    /\ stream = <<>>
    /\ deleted = {}
    /\ lastId = 0
    /\ pel = EmptyMap
    /\ acked = {}
    /\ hot = <<>>
    /\ pc = [c \in Consumers |-> "idle"]
    /\ events = [c \in Consumers |-> <<>>]
    /\ lastRead = NoRead
    /\ cycle = NoCycle
    /\ drained = FALSE
    /\ conn = [c \in Consumers |-> "ready"]
    /\ grp = TRUE
    /\ lastInit = NoInit
    /\ lastStore = NoStore
    /\ lastCall = NoCall
    /\ SyncIdle
    /\ lastMetric = NoMetric

\* RedisStream.add(data): XADD of the serialized mapping.
add(data) ==
    /\ stream' = Append(stream, serialize(data))
    /\ lastRead' = NoRead
    /\ cycle' = NoCycle
    /\ drained' = FALSE
    /\ UNCHANGED <<deleted, lastId, pel, acked, hot, pc, events, conn, grp, lastInit, lastStore, lastCall, syncVars, lastMetric>>

\* ingest(): validate, then db_insert appends the event to the stream.
ingest(doc) ==
    /\ validate(doc) = {}
    /\ add(db_insert(doc))

\* RedisStream.delete_entry(id): XDEL; a pending entry stays in the pending list.
delete_entry(i) ==
    /\ i \in 1..Len(stream)
    /\ i \notin deleted
    /\ deleted' = deleted \cup {i}
    /\ lastRead' = NoRead
    /\ cycle' = NoCycle
    /\ UNCHANGED <<stream, lastId, pel, acked, hot, pc, events, drained, conn, grp, lastInit, lastStore, lastCall, syncVars, lastMetric>>

\* Time passes: every pending entry grows idle (saturating at the threshold).
Tick(ms) ==
    /\ \E i \in DOMAIN pel : pel[i].idle < PENDING_MIN_IDLE_MS
    /\ pel' = [i \in DOMAIN pel |->
                 [pel[i] EXCEPT !.idle = IF @ + ms >= PENDING_MIN_IDLE_MS
                                         THEN PENDING_MIN_IDLE_MS ELSE @ + ms]]
    /\ lastRead' = NoRead
    /\ cycle' = NoCycle
    /\ UNCHANGED <<stream, deleted, lastId, acked, hot, pc, events, drained, conn, grp, lastInit, lastStore, lastCall, syncVars, lastMetric>>

\* A direct call of read(count), as the tests make it; the caller keeps the
\* entries. Without the consumer group the first XREADGROUP answers NOGROUP,
\* which read() logs.
read_direct(c, count) ==
    /\ LET r == read(Group, c, count, IF grp THEN 0 ELSE 1, FALSE)
       IN /\ pel' = r.g.pel
          /\ lastId' = r.g.last
          /\ lastRead' = ReadSummary(r)
          /\ events' = [events EXCEPT ![c] = r.entries]
    /\ cycle' = NoCycle
    /\ drained' = FALSE
    /\ UNCHANGED <<stream, deleted, acked, hot, pc, conn, grp, lastInit, lastStore, lastCall, syncVars, lastMetric>>

\* A direct call of ack_entries(ids) with the ids of the entries the caller
\* holds (none when it holds no entry).
ack_direct(c) ==
    /\ LET a == ack_entries(Group, Ids(events[c]), TRUE)
       IN /\ pel' = a.g.pel
          /\ acked' = acked \cup a.done
    /\ events' = [events EXCEPT ![c] = <<>>]
    /\ lastRead' = NoRead
    /\ cycle' = NoCycle
    /\ drained' = FALSE
    /\ UNCHANGED <<stream, deleted, lastId, hot, pc, conn, grp, lastInit, lastStore, lastCall, syncVars, lastMetric>>

\* process(), first half: _read_events(); with no events it returns 0.
process_read(c, failAt, nil) ==
    /\ pc[c] = "idle"
    /\ \E r \in {read(Group, c, READ_COUNT, failAt, nil)} :
          /\ pel' = r.g.pel
          /\ lastId' = r.g.last
          /\ lastRead' = ReadSummary(r)
          /\ IF Len(r.entries) = 0
             THEN /\ cycle' = [NoCycle EXCEPT !.consumer = c, !.readFailed = (failAt # 0),
                                              !.afterDrained = drained]
                  /\ UNCHANGED <<pc, events>>
             ELSE /\ pc' = [pc EXCEPT ![c] = "read"]
                  /\ events' = [events EXCEPT ![c] = r.entries]
                  /\ cycle' = NoCycle
    /\ UNCHANGED <<stream, deleted, acked, hot, drained, conn, grp, lastInit, lastStore, lastCall, syncVars, lastMetric>>

\* process(), second half: build the batch, store it, acknowledge, return.
process_finish(c, dbOk, xackOk) ==
    /\ pc[c] = "read"
    /\ \E p \in {process(events[c], dbOk)} :
       \E a \in {ack_entries(Group, p.processed_ids, xackOk)} :
          /\ hot' = hot \o p.rows
          /\ pel' = a.g.pel
          /\ acked' = acked \cup a.done
          /\ cycle' = [consumer |-> c, read |-> p.read, batch_ids |-> p.batch_ids,
                       skipped_ids |-> p.skipped_ids, prep_failed |-> p.prep_failed,
                       failed_ids |-> p.failed_ids, processed_ids |-> p.processed_ids,
                       storeRaised |-> p.storeRaised, dbOk |-> dbOk, xackOk |-> xackOk,
                       readFailed |-> FALSE, events |-> events[c],
                       afterDrained |-> drained, ret |-> p.ret]
          /\ drained' = /\ ~p.storeRaised /\ xackOk
                        /\ Range(p.processed_ids) = Range(p.read)
                        /\ 1..Len(stream) \subseteq acked \cup a.done
                        /\ \A d \in Consumers \ {c} : pc[d] = "idle"
    /\ pc' = [pc EXCEPT ![c] = "idle"]
    /\ events' = [events EXCEPT ![c] = <<>>]
    /\ lastRead' = NoRead
    /\ UNCHANGED <<stream, deleted, lastId, conn, grp, lastInit, lastStore, lastCall, syncVars, lastMetric>>

\* The worker process dies inside process(), between the read and the ack.
Crash(c) ==
    /\ pc[c] = "read"
    /\ pc' = [pc EXCEPT ![c] = "idle"]
    /\ events' = [events EXCEPT ![c] = <<>>]
    /\ lastRead' = NoRead
    /\ cycle' = NoCycle
    /\ drained' = FALSE
    /\ UNCHANGED <<stream, deleted, lastId, pel, acked, hot, conn, grp, lastInit, lastStore, lastCall, syncVars, lastMetric>>

\* The pipeline: ingest, drain cycles of two workers over a working stream
\* transport, deletion of entries, time.
Next ==
    \/ Len(stream) < MaxEntries /\ \E doc \in IngestInputs : ingest(doc)
    \/ Len(stream) < MaxEntries /\ \E data \in AddInputs : add(data)
    \/ \E i \in 1..MaxEntries : delete_entry(i)
    \/ Tick(PENDING_MIN_IDLE_MS)
    \/ \E c \in Consumers : \E nil \in BOOLEAN : process_read(c, 0, nil)
    \/ \E c \in Consumers : \E dbOk \in BOOLEAN : process_finish(c, dbOk, TRUE)

Spec == Init /\ [][Next]_vars

\* The pipeline without evictions, under fair scheduling of the drain cycles
\* of every worker: a cycle that has started finishes, and cycles keep coming.
FairNext ==
    \/ Len(stream) < MaxEntries /\ \E data \in AddInputs : add(data)
    \/ Tick(PENDING_MIN_IDLE_MS)
    \/ \E c \in Consumers : process_read(c, 0, FALSE)
    \/ \E c \in Consumers : \E dbOk \in BOOLEAN : process_finish(c, dbOk, TRUE)

FairSpec ==
    /\ Init /\ [][FairNext]_vars
    /\ \A c \in Consumers :
          /\ WF_vars(process_read(c, 0, FALSE))
          /\ WF_vars(\E dbOk \in BOOLEAN : process_finish(c, dbOk, TRUE))

\* The pipeline with faults: a transport error in a read phase or in XACK,
\* and a worker dying inside process().
FaultNext ==
    \/ Len(stream) < MaxEntries /\ \E data \in AddInputs : add(data)
    \/ \E i \in 1..MaxEntries : delete_entry(i)
    \/ Tick(PENDING_MIN_IDLE_MS)
    \/ \E c \in Consumers : \E nil \in BOOLEAN : process_read(c, 0, nil)
    \/ \E c \in Consumers : \E failAt \in 1..3 : process_read(c, failAt, FALSE)
    \/ \E c \in Consumers : \E dbOk, xackOk \in BOOLEAN : process_finish(c, dbOk, xackOk)
    \/ \E c \in Consumers : Crash(c)

FaultSpec == Init /\ [][FaultNext]_vars

\* The stream alone: appends, direct reads and acknowledgements of two consumers.
StreamNext ==
    \/ Len(stream) < MaxStream /\ \E data \in AddInputs : add(data)
    \/ Tick(TickMs)
    \/ \E c \in Consumers : \E n \in 1..MaxCount : read_direct(c, n)
    \/ \E c \in Consumers : ack_direct(c)

StreamSpec == Init /\ [][StreamNext]_vars

\* Sanitization: the stream starts with one or two raw payloads whose site,
\* name and timestamp are each absent, empty or set; workers drain it while
\* entries are deleted and time passes.
SanValues == [site : {None, "", "s1"}, name : {None, "login"}, timestamp : {None, "t1"}]

SanInputs == {serialize(d) : d \in SanValues}

SanInit ==
    /\ stream \in UNION {[1..n -> SanInputs] : n \in 1..MaxEntries}
    /\ deleted = {}
    /\ lastId = 0
    /\ pel = EmptyMap
    /\ acked = {}
    /\ hot = <<>>
    /\ pc = [c \in Consumers |-> "idle"]
    /\ events = [c \in Consumers |-> <<>>]
    /\ lastRead = NoRead
    /\ cycle = NoCycle
    /\ drained = FALSE
    /\ conn = [c \in Consumers |-> "ready"]
    /\ grp = TRUE
    /\ lastInit = NoInit
    /\ lastStore = NoStore
    /\ lastCall = NoCall
    /\ SyncIdle
    /\ lastMetric = NoMetric

SanNext ==
    \/ \E i \in 1..MaxEntries : delete_entry(i)
    \/ Tick(PENDING_MIN_IDLE_MS)
    \/ \E c \in Consumers : \E nil \in BOOLEAN : process_read(c, 0, nil)
    \/ \E c \in Consumers : \E dbOk \in BOOLEAN : process_finish(c, dbOk, TRUE)

SanSpec == SanInit /\ [][SanNext]_vars

----------------------------------------------------------------------------
\* Vocabulary of the properties.

\* A drain cycle has just returned.
CycleDone == cycle.consumer # None

\* The rows of the hot table that carry entry id i.
RowsOf(i) == {r \in 1..Len(hot) : hot[r].event_id = i}

\* The entry with id i was appended through the ingest path.
Ingested(i) == i \in 1..Len(stream) /\ "event_name" \in DOMAIN stream[i]

\* The ids a just-returned read() handed out.
Returned == Range(lastRead.pending) \cup Range(lastRead.stale) \cup Range(lastRead.new)

----------------------------------------------------------------------------
\* C1: a valid event appended through the ingest path and drained by one
\* process() cycle with a working hot store has exactly one row in the hot
\* table, with its event_name, site and captured_at, and when the cycle read
\* the whole stream get_unacknowledged_length() is 0 afterwards.
C1_HappyPath ==
    (CycleDone /\ cycle.dbOk) =>
        /\ \A i \in Range(cycle.read) :
             (Ingested(i) /\ i \notin deleted) =>
                 Cardinality({r \in RowsOf(i) :
                                /\ hot[r].event_name = stream[i].event_name
                                /\ hot[r].site_name = stream[i].site
                                /\ hot[r].timestamp = stream[i].captured_at}) = 1
        /\ Range(cycle.read) = 1..Len(stream) => get_unacknowledged_length = 0

\* C1 (witness): a cycle with a working hot store has just drained an
\* ingested event, which is acknowledged and has no row.
C1_Reached ==
    /\ CycleDone /\ cycle.dbOk
    /\ \E i \in Range(cycle.read) : Ingested(i) /\ i \in acked /\ RowsOf(i) = {}

----------------------------------------------------------------------------
\* C2: an entry that passed sanitization is acknowledged by a drain cycle only
\* when the hot-store transaction holding its row has committed (the code has
\* no dead-letter sink): every batch id the cycle acknowledged has a row.
C2_AckOnlyAfterDurable ==
    CycleDone =>
        \A i \in Range(cycle.batch_ids) :
            i \in Range(cycle.processed_ids) => RowsOf(i) # {}

\* C2 (witness): a cycle has just handled an accepted entry whose store raised;
\* the entry has no row and is not acknowledged.
C2_Reached ==
    /\ CycleDone
    /\ \E i \in Range(cycle.batch_ids) :
          RowsOf(i) = {} /\ i \notin acked /\ i \in DOMAIN pel

----------------------------------------------------------------------------
\* C3: every entry that was appended and is not evicted eventually has a row
\* with its id in the hot store (there is no dead-letter sink to be in).
C3_EventualPersistence ==
    \A i \in 1..MaxEntries :
        (i \in 1..Len(stream) /\ i \notin deleted) ~> (i \in deleted \/ RowsOf(i) # {})

----------------------------------------------------------------------------
----------------------------------------------------------------------------
\* C5: an entry discarded by sanitization has no row in the hot store, is
\* acknowledged by the cycle that discarded it (it is no longer pending), and
\* no later read() of any consumer returns an acknowledged entry.
C5_DiscardedAckedNeverRedelivered ==
    /\ CycleDone =>
          \A i \in Range(cycle.skipped_ids) :
              i \in acked /\ i \notin DOMAIN pel /\ RowsOf(i) = {}
    /\ Returned \cap acked = {}

\* C5 (witness): after a discarded entry was acknowledged, a read() of the
\* other consumer has just delivered a newer entry.
C5_Reached ==
    /\ acked # {}
    /\ lastRead.consumer # None
    /\ Len(lastRead.new) > 0
    /\ \E i \in acked : i < lastRead.new[1] /\ i \notin DOMAIN pel

----------------------------------------------------------------------------
\* The event's site / name / timestamp is missing or empty.
Lacks(e, k) == Falsy(Get(e.data, k))

\* C6 (as claimed): in a drain cycle a raw entry is discarded if and only if
\* it is not a mapping or one of id, site, name, timestamp is missing or
\* empty, and every other entry is accepted into the batch.
C6_DiscardIffAnyOfFourMissing ==
    CycleDone =>
        \A k \in 1..Len(cycle.events) :
            LET e == cycle.events[k]
                bad == \/ ~e.mapping \/ e.id = 0
                       \/ Lacks(e, "site") \/ Lacks(e, "name") \/ Lacks(e, "timestamp")
            IN /\ e.id \in Range(cycle.skipped_ids) <=> bad
               /\ e.id \in Range(cycle.batch_ids) <=> ~bad

\* C6 (amended): in a drain cycle a raw entry is discarded if and only if it
\* is a mapping whose site or name is missing or empty; a mapping with both is
\* accepted into the batch whatever its timestamp; an entry that is not a
\* mapping is neither discarded nor accepted, it is counted as failed.
C6_DiscardIffSiteOrNameMissing ==
    CycleDone =>
        \A k \in 1..Len(cycle.events) :
            LET e == cycle.events[k]
            IN /\ e.id \in Range(cycle.skipped_ids) <=>
                      (e.mapping /\ (Lacks(e, "site") \/ Lacks(e, "name")))
               /\ e.id \in Range(cycle.batch_ids) <=>
                      (e.mapping /\ ~Lacks(e, "site") /\ ~Lacks(e, "name"))
               /\ e.id \in Range(cycle.prep_failed) <=> ~e.mapping

\* C6 (witness): a cycle has just accepted an entry that has a site and a name
\* and no timestamp, and discarded another one.
C6_Reached ==
    /\ CycleDone
    /\ cycle.skipped_ids # <<>>
    /\ \E k \in 1..Len(cycle.events) :
          /\ cycle.events[k].id \in Range(cycle.batch_ids)
          /\ Lacks(cycle.events[k], "timestamp")

----------------------------------------------------------------------------
\* C7 (as claimed): when the preparation of an event raises in a drain cycle,
\* its id is left out of the batch and is acknowledged by that cycle.
C7_PrepFailureAcked ==
    CycleDone =>
        \A k \in 1..Len(cycle.events) :
            ~cycle.events[k].mapping =>
                /\ cycle.events[k].id \notin Range(cycle.batch_ids)
                /\ cycle.events[k].id \in Range(cycle.processed_ids)

\* C7 (amended): when the preparation of an event raises in a drain cycle,
\* its id is left out of the batch, is counted as failed and is not
\* acknowledged by that cycle; the other events are handled as in any cycle:
\* the discarded ones are acknowledged, the accepted ones only if stored.
C7_PrepFailureNotAcked ==
    CycleDone =>
        /\ \A k \in 1..Len(cycle.events) :
              ~cycle.events[k].mapping =>
                  /\ cycle.events[k].id \notin Range(cycle.batch_ids)
                  /\ cycle.events[k].id \notin Range(cycle.processed_ids)
                  /\ cycle.events[k].id \in Range(cycle.failed_ids)
        /\ Range(cycle.skipped_ids) \subseteq acked
        /\ Range(cycle.processed_ids) =
              Range(cycle.skipped_ids)
              \cup (IF cycle.storeRaised THEN {} ELSE Range(cycle.batch_ids))

\* C7 (witness): a cycle has just returned in which the preparation of one
\* event raised and another event was accepted.
C7_Reached ==
    /\ CycleDone
    /\ cycle.prep_failed # <<>>
    /\ cycle.batch_ids # <<>>
    /\ \E k \in 1..Len(cycle.events) : ~cycle.events[k].mapping

----------------------------------------------------------------------------
\* C8: process() always returns an integer: the number of ids it handed to
\* the acknowledgement (skipped ids, and batch ids when the store returned),
\* never more than it read, 0 when the read gave nothing or failed and 0 when
\* the store raised and nothing was skipped; and a cycle that has read its
\* events can always finish, whatever fails afterwards.
C8_ProcessReturnsCount ==
    /\ CycleDone =>
          /\ cycle.ret \in 0..Len(cycle.read)
          /\ cycle.ret = Len(cycle.skipped_ids)
                         + (IF cycle.storeRaised THEN 0 ELSE Len(cycle.batch_ids))
          /\ (cycle.read = <<>> \/ cycle.readFailed) => cycle.ret = 0
          /\ (cycle.storeRaised /\ cycle.skipped_ids = <<>>) => cycle.ret = 0
    /\ \A c \in Consumers :
          pc[c] = "read" =>
              \A dbOk, xackOk \in BOOLEAN : ENABLED process_finish(c, dbOk, xackOk)

\* C8 (witness): a cycle has just returned in which the store raised and the
\* acknowledgement failed too; it returned the number of skipped ids.
C8_Reached ==
    /\ CycleDone
    /\ cycle.storeRaised /\ ~cycle.xackOk
    /\ cycle.skipped_ids # <<>>
    /\ cycle.ret = Len(cycle.skipped_ids)
    /\ Range(cycle.skipped_ids) \cap acked = {}

----------------------------------------------------------------------------
\* C9: a read(count) that has just returned gave at most count entries:
\* first entries that were pending for the caller, then entries claimed from
\* the pending list because they were idle long enough, then entries never
\* delivered before; the stale phase ran only if the pending phase gave fewer
\* than count and asked for the remainder, and likewise the new phase.
C9_ReadPhases ==
    lastRead.consumer # None =>
        LET c == lastRead.consumer
            np == Len(lastRead.pending)
            ns == Len(lastRead.stale)
            nn == Len(lastRead.new)
        IN /\ np + ns + nn <= lastRead.count
           /\ Ids(events[c]) = lastRead.pending \o lastRead.stale \o lastRead.new
           /\ \A i \in Range(lastRead.pending) :
                 i \in DOMAIN lastRead.before /\ lastRead.before[i].owner = c
           /\ \A i \in Range(lastRead.stale) :
                 /\ i \in DOMAIN lastRead.before
                 /\ i \notin Range(lastRead.pending)
                 /\ lastRead.before[i].idle >= PENDING_MIN_IDLE_MS
           /\ \A i \in Range(lastRead.new) :
                 i \notin DOMAIN lastRead.before /\ i > lastRead.beforeLast
           /\ lastRead.ranStale <=> np < lastRead.count
           /\ lastRead.ranStale => lastRead.askedStale = lastRead.count - np
           /\ ns <= lastRead.count - np
           /\ lastRead.ranNew <=> np + ns < lastRead.count
           /\ lastRead.ranNew => lastRead.askedNew = lastRead.count - np - ns
           /\ nn <= lastRead.count - np - ns

\* C9 (witness): a read has just returned one entry from each phase, filling
\* its count exactly.
C9_Reached ==
    /\ lastRead.consumer # None
    /\ lastRead.count = 3
    /\ Len(lastRead.pending) = 1 /\ Len(lastRead.stale) = 1 /\ Len(lastRead.new) = 1

----------------------------------------------------------------------------
\* C10: an entry pending for consumer X is returned by a read() of another
\* consumer only if it had been idle for at least PENDING_MIN_IDLE_MS, and
\* then it becomes the reader's; an acknowledged entry is no longer pending;
\* every pending entry has one owner, and every entry a read has just
\* returned is owned by the reader.
C10_ExclusiveDelivery ==
    /\ \A i \in DOMAIN pel : pel[i].owner \in Consumers /\ i \notin acked
    /\ lastRead.consumer # None =>
          \A i \in Returned :
              /\ i \in DOMAIN pel /\ pel[i].owner = lastRead.consumer
              /\ (i \in DOMAIN lastRead.before
                    /\ lastRead.before[i].owner # lastRead.consumer)
                   => lastRead.before[i].idle >= PENDING_MIN_IDLE_MS

\* C10 (witness): a read of one consumer has just returned an entry while an
\* entry pending for the other consumer, idle for less than the threshold,
\* was left with its owner.
C10_Reached ==
    /\ lastRead.consumer # None
    /\ Returned # {}
    /\ \E i \in DOMAIN pel :
          /\ pel[i].owner # lastRead.consumer
          /\ pel[i].idle > 0 /\ pel[i].idle < PENDING_MIN_IDLE_MS
          /\ i \notin Returned

----------------------------------------------------------------------------
\* The entries pending for a consumer other than c and idle for at least the
\* threshold when the read() that has just returned was called.
StealableBefore(c) ==
    {i \in DOMAIN lastRead.before :
        /\ lastRead.before[i].owner # c
        /\ lastRead.before[i].idle >= PENDING_MIN_IDLE_MS}

\* C11: a read() of consumer B whose stale phase ran returns in that phase the
\* oldest entries that were pending for another consumer and idle for at
\* least PENDING_MIN_IDLE_MS (as many as it asked for); each is then pending
\* for B only, with its idle time reset; an entry of another consumer idle for
\* less than the threshold is not returned and keeps its owner; and once every
\* entry of the stream is acknowledged get_unacknowledged_length() is 0.
C11_StealAfterIdle ==
    /\ lastRead.consumer # None =>
          LET c == lastRead.consumer
          IN /\ lastRead.ranStale =>
                   lastRead.stale = Take(Ascending(StealableBefore(c)), lastRead.askedStale)
             /\ \A i \in Range(lastRead.stale) :
                   i \in DOMAIN pel /\ pel[i] = [owner |-> c, idle |-> 0]
             /\ \A i \in DOMAIN lastRead.before :
                   (lastRead.before[i].owner # c
                      /\ lastRead.before[i].idle < PENDING_MIN_IDLE_MS)
                   => /\ i \notin Returned
                      /\ i \in DOMAIN pel /\ pel[i] = lastRead.before[i]
    /\ (Len(stream) > 0 /\ 1..Len(stream) \subseteq acked) => get_unacknowledged_length = 0

\* C11 (witness): a read of one consumer has just claimed, in its stale phase,
\* an entry that was pending for the other consumer.
C11_Reached ==
    /\ lastRead.consumer # None
    /\ \E i \in Range(lastRead.stale) :
          /\ lastRead.before[i].owner # lastRead.consumer
          /\ pel[i].owner = lastRead.consumer

----------------------------------------------------------------------------
\* The entry ids a just-returned cycle read (a nil reply carries no id).
Observed == Range(cycle.read) \ {0}

\* C12 (as claimed): after a drain cycle every entry it read is either
\* acknowledged or pending, and no entry is ever both.
C12_AckedOrPending ==
    /\ CycleDone => \A i \in Observed : i \in acked \/ i \in DOMAIN pel
    /\ acked \cap DOMAIN pel = {}

\* C12 (amended): after a drain cycle every entry it read that is still in
\* the stream is either acknowledged or pending for exactly one consumer, and
\* no entry is ever both acknowledged and pending.
C12_LiveAckedOrPending ==
    /\ CycleDone =>
          \A i \in Observed \ deleted :
              \/ i \in acked /\ i \notin DOMAIN pel
              \/ i \notin acked /\ i \in DOMAIN pel /\ pel[i].owner \in Consumers
    /\ acked \cap DOMAIN pel = {}

\* C12 (witness): a cycle has just returned that read two entries still in
\* the stream, one now acknowledged and one still pending.
C12_Reached ==
    /\ CycleDone
    /\ \E i, j \in Observed \ deleted : i \in acked /\ j \in DOMAIN pel

----------------------------------------------------------------------------
----------------------------------------------------------------------------
\* C14: ack_entries on an empty list changes nothing; on a list of ids it
\* removes exactly those ids from the pending list, whichever read phase
\* delivered them and whoever owns them, and leaves the other pending entries
\* as they are; get_unacknowledged_length() is the number of entries of the
\* stream that are not acknowledged, hence 0 once all were read and acknowledged.
C14_AckRemovesFromPending ==
    /\ [](get_unacknowledged_length = Len(stream) - Cardinality(acked))
    /\ [][\A c \in Consumers :
            ack_direct(c) =>
              /\ events[c] = <<>> => (pel' = pel /\ acked' = acked)
              /\ DOMAIN pel' = DOMAIN pel \ Range(Ids(events[c]))
              /\ \A i \in DOMAIN pel' : pel'[i] = pel[i]
              /\ acked' = acked \cup Range(Ids(events[c]))]_vars

\* C14 (witness): every entry of a stream of at least two entries has been
\* read and acknowledged, and get_unacknowledged_length() is 0.
C14_Reached ==
    /\ Len(stream) >= 2
    /\ 1..Len(stream) \subseteq acked
    /\ get_unacknowledged_length = 0

----------------------------------------------------------------------------
\* C15: a read() never returns, in any of its phases, an entry that has been
\* evicted from the stream, also when the entry was pending at the time.
C15_EvictedNeverReturned ==
    lastRead.consumer # None => Returned \cap deleted = {}

----------------------------------------------------------------------------
\* RedisStream.conn: the first use of a stream object's connection calls
\* create_if_not_exists(), an EXISTS on the key followed, when the key is
\* absent, by XGROUP CREATE ... MKSTREAM. The two commands are separate
\* round trips, so another worker can create the group in between.

\* EXISTS key: a stream key exists once XGROUP CREATE ... MKSTREAM or an XADD
\* has made it, until DEL removes it.
KeyExists == grp \/ Len(stream) > 0

\* The operation that made the first use of the connection goes on: add()
\* appends, read() reads.
first_use(c, op, data) ==
    /\ IF op = "add"
       THEN /\ stream' = Append(stream, serialize(data))
            /\ lastRead' = NoRead
            /\ UNCHANGED <<lastId, pel, events>>
       ELSE \E r \in {read(Group, c, MaxCount, IF grp' THEN 0 ELSE 1, FALSE)} :
               /\ pel' = r.g.pel
               /\ lastId' = r.g.last
               /\ lastRead' = ReadSummary(r)
               /\ events' = [events EXCEPT ![c] = r.entries]
               /\ UNCHANGED stream
    /\ cycle' = NoCycle
    /\ drained' = FALSE
    /\ UNCHANGED <<deleted, acked, hot, pc>>

\* conn, up to the EXISTS of create_if_not_exists: with the key present the
\* connection is ready and the operation goes on (a read() of a key that has
\* no group logs NOGROUP and returns no entry).
conn_exists(c, op, data) ==
    /\ conn[c] = "none"
    /\ UNCHANGED <<lastStore, lastCall, syncVars, lastMetric>>
    /\ op = "add" => Len(stream) < MaxStream
    /\ IF KeyExists
       THEN /\ conn' = [conn EXCEPT ![c] = "ready"]
            /\ UNCHANGED grp
            /\ first_use(c, op, data)
            /\ lastInit' = [consumer |-> c, op |-> op, raised |-> FALSE, swallowed |-> FALSE]
       ELSE /\ conn' = [conn EXCEPT ![c] = IF op = "add" THEN "absent_add" ELSE "absent_read"]
            /\ lastInit' = NoInit
            /\ lastRead' = NoRead
            /\ cycle' = NoCycle
            /\ drained' = FALSE
            /\ UNCHANGED <<stream, deleted, lastId, pel, acked, hot, pc, events, grp>>

\* conn, the XGROUP CREATE of create_if_not_exists: it creates the group, or
\* answers BUSYGROUP when the group exists by now. The error leaves conn with
\* the connection kept; add() logs and re-raises it, read() logs it and
\* returns no entry.
conn_create(c, data) ==
    /\ conn[c] \in {"absent_add", "absent_read"}
    /\ UNCHANGED <<lastStore, lastCall, syncVars, lastMetric>>
    /\ conn' = [conn EXCEPT ![c] = "ready"]
    /\ LET op == IF conn[c] = "absent_add" THEN "add" ELSE "read"
       IN IF grp
          THEN /\ lastInit' = [consumer |-> c, op |-> op, raised |-> (op = "add"),
                               swallowed |-> (op = "read")]
               /\ lastRead' = NoRead
               /\ cycle' = NoCycle
               /\ drained' = FALSE
               /\ UNCHANGED <<stream, deleted, lastId, pel, acked, hot, pc, events, grp>>
          ELSE /\ grp' = TRUE
               /\ first_use(c, op, data)
               /\ lastInit' = [consumer |-> c, op |-> op, raised |-> FALSE, swallowed |-> FALSE]

\* Two workers start with fresh stream objects on a server without the key,
\* then add, read and acknowledge.
ConnInit ==
    /\ stream = <<>>
    /\ deleted = {}
    /\ lastId = 0
    /\ pel = EmptyMap
    /\ acked = {}
    /\ hot = <<>>
    /\ pc = [c \in Consumers |-> "idle"]
    /\ events = [c \in Consumers |-> <<>>]
    /\ lastRead = NoRead
    /\ cycle = NoCycle
    /\ drained = FALSE
    /\ conn = [c \in Consumers |-> "none"]
    /\ grp = FALSE
    /\ lastInit = NoInit
    /\ lastStore = NoStore
    /\ lastCall = NoCall
    /\ SyncIdle
    /\ lastMetric = NoMetric

ConnNext ==
    \/ \E c \in Consumers : \E op \in {"add", "read"} : \E data \in AddInputs :
          conn_exists(c, op, data)
    \/ \E c \in Consumers : \E data \in AddInputs : conn_create(c, data)
    \/ /\ \E c \in Consumers : conn[c] = "ready"
       /\ Len(stream) < MaxStream
       /\ \E data \in AddInputs : add(data)
    \/ \E c \in Consumers : \E n \in 1..MaxCount : conn[c] = "ready" /\ read_direct(c, n)
    \/ \E c \in Consumers : conn[c] = "ready" /\ Len(events[c]) > 0 /\ ack_direct(c)

ConnSpec == ConnInit /\ [][ConnNext]_vars

\* C16: the first use of a stream connection never fails because the group
\* exists already: neither the add() nor the read() that triggered the
\* initialisation raises or loses its result, also when two workers both saw
\* the key absent.
C16_GroupCreationRaceSafe ==
    lastInit.consumer # None => (~lastInit.raised /\ ~lastInit.swallowed)

----------------------------------------------------------------------------
\* The hot store alone: direct calls of store_batch_in_duckdb with batches of
\* well-formed rows, rows with a NULL in a NOT NULL column and rows that lack
\* a key.
GoodRow(id) ==
    [event_id |-> id, site_name |-> "s1", event_name |-> "login", app_name |-> "app",
     app_version |-> None, timestamp |-> "t1"]

StoreInputs ==
    {GoodRow("e1"), GoodRow("e2"),
     [GoodRow("e1") EXCEPT !.site_name = None],
     [k \in StoreKeys \ {"timestamp"} |-> GoodRow("e2")[k]]}

StoreBatches == UNION {[1..n -> StoreInputs] : n \in 0..MaxBatch}

store_direct(batch, dbOk) ==
    /\ Len(hot) + Len(batch) <= MaxRows
    /\ \E r \in {store_batch_in_duckdb(batch, dbOk)} :
          /\ hot' = hot \o r.rows
          /\ lastStore' = [called |-> TRUE, batch |-> batch, dbOk |-> dbOk,
                           raised |-> r.raised, before |-> hot]
    /\ lastRead' = NoRead
    /\ cycle' = NoCycle
    /\ drained' = FALSE
    /\ UNCHANGED <<stream, deleted, lastId, pel, acked, pc, events, conn, grp, lastInit,
                   lastCall, syncVars, lastMetric>>

StoreNext == \E batch \in StoreBatches : \E dbOk \in BOOLEAN : store_direct(batch, dbOk)

StoreSpec == Init /\ [][StoreNext]_vars

\* C17: after store_batch_in_duckdb returned, the table holds what it held
\* before followed by one row for every element of the batch, in order; after
\* it raised, the table is what it was before; it raises exactly when an
\* element lacks a key, has a NULL in a NOT NULL column, or the database
\* fails on a non-empty batch; an empty batch leaves the table unchanged.
C17_StoreAtomic ==
    lastStore.called =>
        /\ ~lastStore.raised =>
              /\ Len(hot) = Len(lastStore.before) + Len(lastStore.batch)
              /\ \A k \in 1..Len(lastStore.before) : hot[k] = lastStore.before[k]
              /\ \A k \in 1..Len(lastStore.batch) :
                    hot[Len(lastStore.before) + k] = Row(lastStore.batch[k])
        /\ lastStore.raised => hot = lastStore.before
        /\ lastStore.raised <=>
              \/ \E k \in 1..Len(lastStore.batch) :
                    \/ ~(StoreKeys \subseteq DOMAIN lastStore.batch[k])
                    \/ \E col \in NotNullColumns : Get(lastStore.batch[k], col) = None
              \/ Len(lastStore.batch) > 0 /\ ~lastStore.dbOk
        /\ lastStore.batch = <<>> => hot = lastStore.before

\* C17 (witness): a call on a non-empty table has just raised on the second
\* row of its batch, the first row being well-formed.
C17_Reached ==
    /\ lastStore.called /\ lastStore.raised /\ lastStore.dbOk
    /\ lastStore.before # <<>>
    /\ Len(lastStore.batch) = 2
    /\ lastStore.batch[1] = GoodRow("e2")
    /\ lastStore.batch[2].site_name = None

----------------------------------------------------------------------------
\* api/__init__.py: the ingest endpoints.

MaxBulk == 3

\* The value of an `Authorization` header that carries a key as bearer token.
Bearer(key) == IF key = "secret" THEN "Bearer secret" ELSE "Bearer wrong"

\* check_auth(): None when the request may go on, else the exception raised.
\* The only header read is X-Pulse-API-Key.
check_auth(api_key, headers) ==
    IF Falsy(api_key) THEN "PermissionError"
    ELSE IF Falsy(Get(headers, "X-Pulse-API-Key")) THEN "PermissionError"
    ELSE IF Get(headers, "X-Pulse-API-Key") # api_key THEN "PermissionError"
    ELSE None

\* ingest that goes on after a failed check_auth.
ingest_api_ignore_auth(api_key, headers, doc) ==
    IF validate(doc) # {} THEN [raised |-> "ValidationError", added |-> <<>>]
    ELSE [raised |-> check_auth(api_key, headers), added |-> <<db_insert(doc)>>]

\* ingest(event_name, captured_at, ...): check_auth, then validate and
\* db_insert; every exception is logged and re-raised. `added` is what was
\* handed to stream.add.
ingest_api(api_key, headers, doc) ==
    IF check_auth(api_key, headers) # None
    THEN [raised |-> check_auth(api_key, headers), added |-> <<>>]
    ELSE IF validate(doc) # {} THEN [raised |-> "ValidationError", added |-> <<>>]
    ELSE [raised |-> None, added |-> <<db_insert(doc)>>]

\* An element of the posted list that frappe._dict cannot convert.
NotAMapping == [not_a_mapping |-> "abc"]

IsMapping(event) == "not_a_mapping" \notin DOMAIN event

IsValid(event) == validate(event) = {}

\* The events of the list the loop handles before it is aborted: frappe._dict
\* raises on an element that is no mapping, and the handler, reading
\* event.event_name of that element, raises AttributeError out of the loop.
Handled(evs) ==
    IF \A k \in 1..Len(evs) : IsMapping(evs[k]) THEN evs
    ELSE Take(evs, (CHOOSE k \in 1..Len(evs) :
                          /\ ~IsMapping(evs[k])
                          /\ \A j \in 1..(k - 1) : IsMapping(evs[j])) - 1)

Inserted(evs) ==
    [k \in 1..Len(SelectSeq(evs, IsValid)) |-> db_insert(SelectSeq(evs, IsValid)[k])]

\* bulk_ingest that gives up at the first event that fails.
bulk_ingest_stop_at_first(api_key, headers, list, evs) ==
    IF ~list THEN [raised |-> "ValidationError", added |-> <<>>]
    ELSE IF check_auth(api_key, headers) # None
    THEN [raised |-> check_auth(api_key, headers), added |-> <<>>]
    ELSE IF \A k \in 1..Len(evs) : IsMapping(evs[k]) /\ IsValid(evs[k])
    THEN [raised |-> None, added |-> Inserted(evs)]
    ELSE [raised |-> "ValidationError",
          added  |-> Inserted(Take(evs, (CHOOSE k \in 1..Len(evs) :
                          /\ ~(IsMapping(evs[k]) /\ IsValid(evs[k]))
                          /\ \A j \in 1..(k - 1) :
                                IsMapping(evs[j]) /\ IsValid(evs[j])) - 1))]

\* bulk_ingest(events): the list test, then check_auth, then one try per
\* event; the failed ones are collected and reported by one ValidationError
\* after the loop. `list` says whether the posted value is a list.
bulk_ingest(api_key, headers, list, evs) ==
    IF ~list THEN [raised |-> "ValidationError", added |-> <<>>]
    ELSE IF check_auth(api_key, headers) # None
    THEN [raised |-> check_auth(api_key, headers), added |-> <<>>]
    ELSE [raised |-> IF Handled(evs) # evs THEN "AttributeError"
                     ELSE IF \E k \in 1..Len(evs) : ~IsValid(evs[k])
                     THEN "ValidationError"
                     ELSE None,
          added  |-> Inserted(Handled(evs))]

\* Requests.
ApiKeys == {None, "secret"}

Headers ==
    {EmptyMap,
     [h \in {"X-Pulse-API-Key"} |-> "secret"],
     [h \in {"X-Pulse-API-Key"} |-> "wrong"],
     [h \in {"Authorization"} |-> Bearer("secret")]}

ApiEvents ==
    {[event_name |-> "login", captured_at |-> "2025-01-01T00:00:00Z", site |-> "s1"],
     [event_name |-> "logout", captured_at |-> "t2", site |-> "s1"],
     [captured_at |-> "t2", site |-> "s1"],
     [event_name |-> "login", captured_at |-> "", site |-> "s1"]}

BulkEvents == {e \in ApiEvents : Get(e, "captured_at") # ""} \cup {NotAMapping}

BulkLists == UNION {[1..n -> BulkEvents] : n \in 0..MaxBulk}

Answered(op, api_key, headers, list, evs, r) ==
    /\ stream' = stream \o [k \in 1..Len(r.added) |-> serialize(r.added[k])]
    /\ lastCall' = [op |-> op, api_key |-> api_key, headers |-> headers, list |-> list,
                    events |-> evs, raised |-> r.raised, before |-> stream]
    /\ lastRead' = NoRead
    /\ cycle' = NoCycle
    /\ drained' = FALSE
    /\ UNCHANGED <<deleted, lastId, pel, acked, hot, pc, events, conn, grp, lastInit,
                   lastStore, syncVars, lastMetric>>

post_ingest(api_key, headers, doc) ==
    /\ Len(stream) < MaxStream
    /\ \E r \in {ingest_api(api_key, headers, doc)} :
          Answered("ingest", api_key, headers, TRUE, <<doc>>, r)

post_bulk_ingest(api_key, headers, list, evs) ==
    /\ Len(stream) + Len(evs) <= MaxStream
    /\ \E r \in {bulk_ingest(api_key, headers, list, evs)} :
          Answered("bulk_ingest", api_key, headers, list, evs, r)

ApiNext ==
    \E api_key \in ApiKeys : \E headers \in Headers :
        \/ \E doc \in ApiEvents : post_ingest(api_key, headers, doc)
        \/ \E evs \in BulkLists : post_bulk_ingest(api_key, headers, TRUE, evs)
        \/ \E doc \in ApiEvents : post_bulk_ingest(api_key, headers, FALSE, <<doc>>)

ApiSpec == Init /\ [][ApiNext]_vars

\* What the request appended.
Appended == SubSeq(stream, Len(lastCall.before) + 1, Len(stream))

\* The configured secret is presented in X-Pulse-API-Key or as bearer token.
Presented ==
    /\ ~Falsy(lastCall.api_key)
    /\ \/ Get(lastCall.headers, "X-Pulse-API-Key") = lastCall.api_key
       \/ Get(lastCall.headers, "Authorization") = Bearer(lastCall.api_key)

\* C18: a request to ingest (or bulk_ingest with a list) is refused with a
\* permission error exactly when the configured secret is presented neither
\* in X-Pulse-API-Key nor as Authorization: Bearer.
C18_AuthAcceptsKeyOrBearer ==
    (lastCall.op # None /\ lastCall.list) =>
        (lastCall.raised = "PermissionError" <=> ~Presented)

\* The secret is configured and X-Pulse-API-Key carries it.
KeyInHeader ==
    /\ ~Falsy(lastCall.api_key)
    /\ Get(lastCall.headers, "X-Pulse-API-Key") = lastCall.api_key

\* C19: a request that is rejected (ingest without the key or with an event
\* lacking a non-empty event_name or captured_at, bulk_ingest without the key
\* or with a value that is no list) raises, and the stream is what it was
\* before the request.
C19_RejectedIngestLeavesStream ==
    /\ (lastCall.op = "ingest" /\ (~KeyInHeader \/ ~IsValid(lastCall.events[1]))) =>
          /\ lastCall.raised = (IF ~KeyInHeader THEN "PermissionError" ELSE "ValidationError")
          /\ stream = lastCall.before
    /\ (lastCall.op = "bulk_ingest" /\ (~lastCall.list \/ ~KeyInHeader)) =>
          /\ lastCall.raised = (IF ~lastCall.list THEN "ValidationError" ELSE "PermissionError")
          /\ stream = lastCall.before

\* C19 (witness): an ingest carrying the key was rejected for a missing
\* event_name on a stream that already held an entry.
C19_Reached ==
    /\ lastCall.op = "ingest"
    /\ KeyInHeader
    /\ Get(lastCall.events[1], "event_name") = None
    /\ lastCall.raised = "ValidationError"
    /\ lastCall.before # <<>>

----------------------------------------------------------------------------
\* RedisStream.add on mappings with null, empty, text and integer values.

AppendInputs == [site : {None, "", "s1"}, name : {None, "login"}, count : {None, Int5}]

AppendNext == \E data \in AppendInputs : Len(stream) < MaxStream /\ add(data)

AppendSpec == Init /\ [][AppendNext]_vars

\* The entry the last XADD wrote.
Written == stream'[Len(stream')]

----------------------------------------------------------------------------
\* WarehouseSyncLog.sync, one action per blocking step.

pipeVars == <<stream, deleted, lastId, pel, acked, hot, pc, events, lastRead, cycle, drained,
              conn, grp, lastInit, lastStore, lastCall, lastMetric>>

\* A row is created in the reference doctype (the stream: an entry is added).
append_row(t) ==
    /\ Len(source) < MaxSource
    /\ t >= Max({0} \cup {source[k].creation : k \in 1..Len(source)})
    /\ job.kind = "stream" => t = Len(source) + 1
    /\ job.kind = "rows" => t <= MaxCreation
    /\ source' = Append(source, [name |-> Len(source) + 1, creation |-> t])
    /\ whist' = [whist EXCEPT !.appended = TRUE]
    /\ UNCHANGED <<target, job, lock, run, pipeVars>>

\* A new Warehouse Sync Log takes the place of one that has ended.
new_run(r) ==
    /\ run[r].pc = "done"
    /\ run' = [run EXCEPT ![r] = NoRun]
    /\ UNCHANGED <<source, target, job, lock, whist, pipeVars>>

\* sync() up to the lock: should_sync, the batch size, the status, the
\* copy of the job's checkpoint.
sync_start(r, bs) ==
    /\ run[r].pc = "queued"
    /\ IF ~should_sync(job, source)
       THEN run' = [run EXCEPT ![r] = [@ EXCEPT !.pc = "done", !.status = "Skipped",
                                                !.log = "no_new_rows",
                                                !.startTarget = target,
                                                !.startCheckpoint = job.checkpoint,
                                                !.rerun = \A k \in 1..Len(source) :
                                                   \E j \in 1..Len(target) :
                                                      target[j].name = source[k].name]]
       ELSE run' = [run EXCEPT ![r] = [@ EXCEPT !.pc = "lock", !.status = "In Progress",
                                                !.log = None,
                                                !.batch_size = bs,
                                                !.checkpoint = job.checkpoint,
                                                !.startTarget = target,
                                                !.startCheckpoint = job.checkpoint,
                                                !.rerun = \A k \in 1..Len(source) :
                                                   \E j \in 1..Len(target) :
                                                      target[j].name = source[k].name]]
    /\ UNCHANGED <<source, target, job, lock, whist, pipeVars>>

\* filelock granted.
sync_acquire(r) ==
    /\ run[r].pc = "lock"
    /\ filelock_free(lock)
    /\ lock' = r
    /\ run' = [run EXCEPT ![r].pc = "fetch"]
    /\ UNCHANGED <<source, target, job, whist, pipeVars>>

\* The same with LockTimeoutError falling into the handler of Exception.
sync_lock_timeout_as_failure(r) ==
    /\ run[r].pc = "lock"
    /\ ~filelock_free(lock)
    /\ run' = [run EXCEPT ![r] = [@ EXCEPT !.pc = "done", !.status = "Failed",
                                           !.log = "error"]]
    /\ UNCHANGED <<source, target, job, lock, whist, pipeVars>>

\* LockTimeoutError: the bounded wait ended while another run held the lock.
sync_lock_timeout(r) ==
    /\ run[r].pc = "lock"
    /\ ~filelock_free(lock)
    /\ run' = [run EXCEPT ![r] = [@ EXCEPT !.pc = "done", !.status = "Skipped",
                                           !.log = "lock_timeout"]]
    /\ UNCHANGED <<source, target, job, lock, whist, pipeVars>>

\* The run ends inside the lock: the lock is released, the status written.
Ended(r, status, log, fields) ==
    /\ run' = [run EXCEPT ![r] = [fields EXCEPT !.pc = "done", !.status = status, !.log = log]]
    /\ lock' = None

\* The head of the loop: get_etl_batch. With ok FALSE the fetch fails: the
\* row store raises; RedisStream.get_entries logs the error and returns [].
sync_fetch(r, ok) ==
    /\ run[r].pc = "fetch"
    /\ \E batch \in {IF ok THEN get_etl_batch(job.kind, source, run[r].checkpoint,
                                              run[r].batch_size)
                     ELSE <<>>} :
          IF ~ok /\ job.kind = "rows"
          THEN Ended(r, "Failed", "error", run[r]) /\ UNCHANGED whist
          ELSE IF batch = <<>>
          THEN /\ Ended(r, "Completed", "no_new_data", run[r])
               /\ whist' = [whist EXCEPT !.completed = TRUE,
                                         !.maxCompleted = Max({@, job.checkpoint})]
          ELSE /\ run' = [run EXCEPT ![r] = [@ EXCEPT !.pc = "insert", !.batch = batch]]
               /\ UNCHANGED <<lock, whist>>
    /\ UNCHANGED <<source, target, job, pipeVars>>

\* _insert_batch and the end of the loop body.
sync_insert(r, failAt) ==
    /\ run[r].pc = "insert"
    /\ \E res \in {_insert_batch(job.kind, target, run[r].batch, failAt)} :
          /\ target' = res.target
          /\ job' = IF res.persisted THEN [job EXCEPT !.checkpoint = res.checkpoint] ELSE job
          /\ IF res.raised
             THEN /\ Ended(r, "Failed", "error", run[r])
                  /\ whist' = [whist EXCEPT !.persistedBatch =
                                   IF res.persisted THEN run[r].batch ELSE @,
                                                !.insertedBatch =
                                   IF failAt = "persist" THEN run[r].batch ELSE @]
             ELSE \E fields \in {[run[r] EXCEPT !.checkpoint = res.checkpoint,
                                                !.total_inserted = @ + res.insert_count]} :
                     IF loop_done(run[r].batch, run[r].batch_size)
                     THEN /\ Ended(r, "Completed", "inserted", fields)
                          /\ whist' = [whist EXCEPT
                                          !.persistedBatch = run[r].batch,
                                          !.insertedBatch = run[r].batch,
                                          !.completed = TRUE,
                                          !.maxCompleted = Max({@, res.checkpoint})]
                     ELSE /\ run' = [run EXCEPT ![r] = [fields EXCEPT !.pc = "fetch",
                                                                      !.log = "inserted"]]
                          /\ whist' = [whist EXCEPT !.persistedBatch = run[r].batch,
                                                        !.insertedBatch = run[r].batch]
                          /\ UNCHANGED lock
    /\ UNCHANGED <<source, pipeVars>>

SyncSteps ==
    \/ \E r \in Runs : new_run(r)
    \/ \E r \in Runs : \E bs \in 1..MaxBatchSize : sync_start(r, bs)
    \/ \E r \in Runs : sync_acquire(r)
    \/ \E r \in Runs : sync_lock_timeout(r)
    \/ \E r \in Runs : \E ok \in BOOLEAN : sync_fetch(r, ok)
    \/ \E r \in Runs : \E failAt \in {"none", "insert", "persist"} : sync_insert(r, failAt)

\* The source sequences of a row store: names 1..n, creation never decreasing.
RowSources ==
    {rows \in UNION {[1..n -> [name : 1..MaxSource, creation : 1..MaxCreation]]
                       : n \in 0..MaxSource} :
        /\ \A k \in 1..Len(rows) : rows[k].name = k
        /\ \A k \in 1..(Len(rows) - 1) : rows[k].creation <= rows[k + 1].creation}

\* The entries of the stream as rows: the entry id is name and creation_key.
StreamSources == {[k \in 1..n |-> [name |-> k, creation |-> k]] : n \in 0..MaxSource}

SyncInit(sources) ==
    /\ stream = <<>>
    /\ deleted = {}
    /\ lastId = 0
    /\ pel = EmptyMap
    /\ acked = {}
    /\ hot = <<>>
    /\ pc = [c \in Consumers |-> "idle"]
    /\ events = [c \in Consumers |-> <<>>]
    /\ lastRead = NoRead
    /\ cycle = NoCycle
    /\ drained = FALSE
    /\ conn = [c \in Consumers |-> "ready"]
    /\ grp = TRUE
    /\ lastInit = NoInit
    /\ lastStore = NoStore
    /\ lastCall = NoCall
    /\ lastMetric = NoMetric
    /\ \E kind \in {"rows", "stream"} : \E enabled \in BOOLEAN : \E c \in 0..1 :
          /\ job = [kind |-> kind, enabled |-> enabled, checkpoint |-> c]
          /\ whist = [NoHist EXCEPT !.initial = c]
          /\ source \in (IF kind = "rows" THEN sources ELSE sources \cap StreamSources)
    /\ target = <<>>
    /\ lock = None
    /\ run = [r \in Runs |-> NoRun]

\* Runs over a source that grows.
WhInit == SyncInit({<<>>})

WhNext == SyncSteps \/ \E t \in 1..MaxSource : append_row(t)

WhSpec == WhInit /\ [][WhNext]_vars

\* Runs over a source that does not change.
WhStaticInit == SyncInit(RowSources \cup StreamSources)

WhStaticSpec == WhStaticInit /\ [][SyncSteps]_vars

----------------------------------------------------------------------------
\* Vocabulary of the warehouse properties.

\* The primary keys in the target table.
TargetNames == {target[k].name : k \in 1..Len(target)}

\* The rows of the source after the initial checkpoint, by primary key.
DueNames == {source[k].name : k \in {j \in 1..Len(source) :
                 creation_key(job.kind, source[j]) > whist.initial}}

\* The largest creation_key of a batch.
MaxKey(batch) == Max({creation_key(job.kind, batch[k]) : k \in 1..Len(batch)})

\* C22: whenever a checkpoint has been persisted for a batch, it is the
\* largest creation_key of that batch and every row of the batch is in the
\* target table; a batch whose insert raises leaves the persisted checkpoint
\* as it was.
C22_CheckpointAfterInsert ==
    /\ [](whist.persistedBatch # <<>> =>
            /\ job.checkpoint = MaxKey(whist.persistedBatch)
            /\ \A k \in 1..Len(whist.persistedBatch) :
                  whist.persistedBatch[k].name \in TargetNames)
    /\ [][\A r \in Runs : sync_insert(r, "insert") => job' = job]_vars

\* C22 (witness): a run has failed after an earlier batch was inserted and
\* its checkpoint persisted, with source rows still missing in the target.
C22_Reached ==
    /\ \E r \in Runs : run[r].status = "Failed"
    /\ whist.persistedBatch # <<>>
    /\ job.checkpoint > whist.initial
    /\ target # <<>>
    /\ ~(DueNames \subseteq TargetNames)

\* Run r ends Completed in this step.
Completes(r) == run[r].status # "Completed" /\ run'[r].status = "Completed"

\* C23: when a run ends Completed, the persisted checkpoint is at least the
\* checkpoint that stood at the end of every earlier Completed run.
C23_CheckpointMonotone ==
    [][\A r \in Runs : Completes(r) => job'.checkpoint >= whist.maxCompleted]_vars

\* No two rows of the target table carry the same primary key.
UniqueKeys == \A j, k \in 1..Len(target) : target[j].name = target[k].name => j = k

\* C24: the target table never holds two rows with the same primary key; a
\* run started when every source row is already in the target (whatever
\* checkpoint it starts from) inserts no row and leaves the table as it is;
\* and when a run over a row store with pairwise distinct creation values
\* ends Completed, the target holds exactly the source rows after the initial
\* checkpoint and the checkpoint is the largest creation value.
C24_Idempotent ==
    /\ [](UniqueKeys)
    /\ [](\A r \in Runs : (run[r].status # "Queued" /\ run[r].rerun) =>
             /\ run[r].total_inserted = 0
             /\ target = run[r].startTarget)
    /\ [][\A r \in Runs :
            (/\ Completes(r)
             /\ job.kind = "rows"
             /\ \A j, k \in 1..Len(source) :
                   source[j].creation = source[k].creation => j = k) =>
                /\ {target'[k].name : k \in 1..Len(target')} = DueNames
                /\ job'.checkpoint = Max({whist.initial} \cup
                                          {source[k].creation : k \in 1..Len(source)})]_vars

\* C24 (witness): a run started on a fully mirrored source has fetched a
\* batch, inserted nothing and ended Completed, the target holding three rows.
C24_Reached ==
    \E r \in Runs :
        /\ run[r].rerun /\ run[r].status = "Completed"
        /\ run[r].batch # <<>>
        /\ run[r].total_inserted = 0
        /\ Len(target) = 3

\* C25: over a source that does not change, when a run ends Completed the
\* primary keys in the target are exactly those of the source rows whose
\* creation_key is greater than the initial checkpoint.
C25_Complete ==
    [][\A r \in Runs : Completes(r) =>
          {target'[k].name : k \in 1..Len(target')} = DueNames]_vars

\* The source holds a row whose creation_key is greater than the persisted
\* checkpoint (any row when no checkpoint is set).
HasNewRows ==
    \E k \in 1..Len(source) :
        job.checkpoint = 0 \/ creation_key(job.kind, source[k]) > job.checkpoint

\* C26: a run that starts while the job is disabled or the source holds no
\* row with a creation_key greater than the checkpoint ends Skipped at once,
\* with the target and the checkpoint as they were.
C26_SkippedWithoutNewRows ==
    [][\A r \in Runs : \A bs \in 1..MaxBatchSize :
          (sync_start(r, bs) /\ (~job.enabled \/ ~HasNewRows)) =>
             /\ run'[r].status = "Skipped"
             /\ target' = target
             /\ job' = job]_vars

\* The runs that are inside the drain loop.
InLoop == {r \in Runs : run[r].pc \in {"fetch", "insert"}}

\* At most one run is inside the drain loop, and it is the holder of the lock.
OneInLoop == Cardinality(InLoop) <= 1 /\ \A r \in InLoop : lock = r

\* Run q stands against run r: it waits for the lock or has ended Skipped
\* on the lock timeout.
Contends(q, r) ==
    /\ q # r
    /\ \/ run[q].pc = "lock"
       \/ run[q].status = "Skipped" /\ run[q].log = "lock_timeout"

\* C27: at most one run is inside the drain loop at any time; when one of two
\* concurrent runs ends Completed while the other waits for the lock or has
\* ended Skipped, the number of rows in the target equals the number of source
\* rows whose creation is greater than the prior checkpoint.
C27_LockExclusion ==
    /\ [](OneInLoop)
    /\ [][\A r \in Runs :
             (Completes(r) /\ \E q \in Runs : Contends(q, r)) =>
                 Len(target') = Cardinality(DueNames)]_vars

\* C28: a run that waits for the lock and ends there, the lock being held by
\* another run, ends Skipped with the lock-timeout log line; it has fetched no
\* batch and inserted no row, its checkpoint is the one it started with, and
\* the step changes neither the target nor the persisted checkpoint nor the
\* holder of the lock.
C28_LockTimeoutSkipped ==
    [][\A r \in Runs :
          (run[r].pc = "lock" /\ run'[r].pc = "done") =>
             /\ lock \notin {None, r}
             /\ run'[r].status = "Skipped"
             /\ run'[r].log = "lock_timeout"
             /\ run'[r].total_inserted = 0
             /\ run'[r].batch = <<>>
             /\ run'[r].checkpoint = run'[r].startCheckpoint
             /\ target' = target
             /\ job' = job
             /\ lock' = lock]_vars

\* A run has ended Skipped on the lock timeout while the holder of the lock
\* has inserted rows and moved the checkpoint.
C28_Reached ==
    \E r, q \in Runs :
        /\ run[r].status = "Skipped" /\ run[r].log = "lock_timeout"
        /\ run[q].total_inserted > 0
        /\ job.checkpoint > run[r].startCheckpoint

\* Run r leaves the drain loop in this step without ending Completed: an
\* exception has reached sync().
Aborts(r) ==
    /\ run[r].pc \in {"fetch", "insert"}
    /\ run'[r].pc = "done"
    /\ run'[r].status # "Completed"

\* C29: a run that an exception takes out of the drain loop ends Failed, and
\* the persisted checkpoint is then the largest creation_key of the last batch
\* that was fully inserted; over a source that does not change, a run that
\* ends Completed after another run has Failed leaves in the target exactly
\* the source rows after the initial checkpoint, each once.
C29_FailedRunResumes ==
    /\ [][\A r \in Runs : Aborts(r) =>
             /\ run'[r].status = "Failed"
             /\ whist'.insertedBatch # <<>> =>
                   job'.checkpoint = MaxKey(whist'.insertedBatch)]_vars
    /\ [][\A r \in Runs :
             (Completes(r) /\ \E q \in Runs : run[q].status = "Failed") =>
                 /\ {target'[k].name : k \in 1..Len(target')} = DueNames
                 /\ UniqueKeys']_vars

----------------------------------------------------------------------------
\* Metrics: the accessors are called while the stream is written, read and
\* acknowledged, with the transport and the hot store up or down.

get_metric(name, redisOk, dbOk) ==
    /\ \E res \in {metric(name, redisOk, dbOk)} :
          lastMetric' = [name |-> name, redisOk |-> redisOk, dbOk |-> dbOk,
                         raised |-> res.raised, value |-> res.value]
    /\ UNCHANGED <<stream, deleted, lastId, pel, acked, hot, pc, events, lastRead, cycle,
                   drained, conn, grp, lastInit, lastStore, lastCall, syncVars>>

MetricNext ==
    \/ Len(stream) < MaxStream /\ \E data \in AddInputs : add(data)
    \/ \E c \in Consumers : \E n \in 1..MaxCount : read_direct(c, n)
    \/ \E c \in Consumers : ack_direct(c)
    \/ \E name \in Accessors : \E redisOk, dbOk \in BOOLEAN : get_metric(name, redisOk, dbOk)

MetricSpec == Init /\ [][MetricNext]_vars

\* The last accessor called reads the side that was down.
Down ==
    \/ lastMetric.name \notin {"get_db_size", "get_stats"} /\ ~lastMetric.redisOk
    \/ lastMetric.name = "get_db_size" /\ ~lastMetric.dbOk
    \/ lastMetric.name = "get_stats" /\ ~lastMetric.redisOk /\ ~lastMetric.dbOk

\* C30: no metric accessor raises; with the stream transport or the hot
\* store down, it returns 0, None or an empty value.
C30_MetricsNeverRaise ==
    lastMetric.name # None =>
        /\ ~lastMetric.raised
        /\ Down => lastMetric.value.n = 0

----------------------------------------------------------------------------
\* The read phases under transport errors.

\* C31: when the transport call of the pending phase or of the stale-claim
\* phase raises, read() still runs the phases after it: the stale claim after
\* a failed pending phase, and the new-entry phase whenever the entries
\* gathered so far are fewer than count.
C31_ReadPhasesBestEffort ==
    [][\A c \in Consumers : \A failAt \in {1, 2} :
          process_read(c, failAt, FALSE) =>
             /\ failAt = 1 => lastRead'.ranStale
             /\ Len(lastRead'.pending) + Len(lastRead'.stale) < READ_COUNT
                   => lastRead'.ranNew]_vars

\* The ids consumer c received from its last read() that nobody has
\* acknowledged since.
Owed(c) == Range(Ids(events[c])) \ acked

----------------------------------------------------------------------------
\* The drain loop: batches, termination, the run record.

\* Row a comes before row b in (creation_key, primary_key) order.
Before(a, b) ==
    \/ creation_key(job.kind, a) < creation_key(job.kind, b)
    \/ creation_key(job.kind, a) = creation_key(job.kind, b) /\ a.name < b.name

\* C33: every batch the drain loop fetches holds only source rows whose
\* creation_key is strictly greater than the checkpoint the run fetches with,
\* in ascending (creation_key, primary_key) order.
C33_BatchAfterCheckpoint ==
    [][\A r \in Runs :
          (run[r].pc = "fetch" /\ run'[r].pc = "insert") =>
             /\ \A k \in 1..Len(run'[r].batch) :
                   /\ creation_key(job.kind, run'[r].batch[k]) > run[r].checkpoint
                   /\ \E j \in 1..Len(source) : source[j] = run'[r].batch[k]
             /\ \A j, k \in 1..Len(run'[r].batch) :
                   j < k => Before(run'[r].batch[j], run'[r].batch[k])]_vars

\* sync() raises before its try block: in self._config.should_sync()
\* (the run is still Queued) or, should_sync having answered True and the
\* status being In Progress, in ensure_warehouse_table().
sync_raises(r, at) ==
    /\ run[r].pc = "queued"
    /\ at = "ensure_warehouse_table" => should_sync(job, source)
    /\ run' = [run EXCEPT ![r] = [@ EXCEPT !.pc = "done",
                                           !.status = IF at = "should_sync" THEN "Queued"
                                                      ELSE "In Progress",
                                           !.startTarget = target,
                                           !.startCheckpoint = job.checkpoint]]
    /\ UNCHANGED <<source, target, job, lock, whist, pipeVars>>

\* The sync runs with failures before the lock as well.
WhRaiseNext ==
    \/ WhNext
    \/ \E r \in Runs : \E at \in {"should_sync", "ensure_warehouse_table"} : sync_raises(r, at)

WhRaiseSpec == WhInit /\ [][WhRaiseNext]_vars

\* C34: a run whose sync() has returned or raised is Completed, Failed or
\* Skipped.
C34_TerminalStatus ==
    \A r \in Runs : run[r].pc = "done" => run[r].status \in {"Completed", "Failed", "Skipped"}

\* The sync runs over a source that does not change, no call failing, under
\* fair scheduling of the drain loop: a run that can fetch or insert does so.
WhFairNext ==
    \/ \E r \in Runs : new_run(r)
    \/ \E r \in Runs : \E bs \in 1..MaxBatchSize : sync_start(r, bs)
    \/ \E r \in Runs : sync_acquire(r)
    \/ \E r \in Runs : sync_lock_timeout(r)
    \/ \E r \in Runs : sync_fetch(r, TRUE)
    \/ \E r \in Runs : sync_insert(r, "none")

WhFairSpec ==
    /\ WhStaticInit /\ [][WhFairNext]_vars
    /\ \A r \in Runs : WF_vars(sync_fetch(r, TRUE)) /\ WF_vars(sync_insert(r, "none"))

\* C35: over a source that does not change, a run that has entered the drain
\* loop leaves it and ends Completed.
C35_DrainTerminates ==
    \A r \in Runs : (run[r].pc \in {"fetch", "insert"}) ~> (run[r].status = "Completed")

----------------------------------------------------------------------------
\* Drain cycles over a stream that holds an entry the hot table rejects.

\* Entry i carries site, name and timestamp: _prepare_event accepts it and
\* the hot table has a value for each NOT NULL column it is given.
Storable(i) ==
    /\ i \in 1..Len(stream)
    /\ \A f \in {"site", "name", "timestamp"} : ~Falsy(Get(stream[i], f))

\* Entry i passes _prepare_event but has no timestamp.
Unstorable(i) ==
    /\ i \in 1..Len(stream)
    /\ ~Falsy(Get(stream[i], "site")) /\ ~Falsy(Get(stream[i], "name"))
    /\ Falsy(Get(stream[i], "timestamp"))

\* The stream starts with an entry without timestamp, alone or next to
\* another entry; entries are appended and the drain cycles of every worker
\* are scheduled fairly.
HolInit == SanInit /\ \E i \in 1..Len(stream) : Unstorable(i)

HolSpec ==
    /\ HolInit /\ [][FairNext]_vars
    /\ \A c \in Consumers :
          /\ WF_vars(process_read(c, 0, FALSE))
          /\ WF_vars(\E dbOk \in BOOLEAN : process_finish(c, dbOk, TRUE))

\* C36: next to an entry that passes sanitization and can never be stored,
\* every entry with site, name and timestamp eventually has a row in the hot
\* store and is acknowledged.
C36_NoHeadOfLineBlocking ==
    \A i \in 1..MaxEntries : Storable(i) ~> (RowsOf(i) # {} /\ i \in acked)

----------------------------------------------------------------------------
\* C37: under any interleaving of the drain cycles of the workers, with stale
\* claims, crashes and failing acknowledgements, no entry id has more than
\* one row in the hot table.
C37_AtMostOnce == \A i \in 1..MaxEntries : Cardinality(RowsOf(i)) <= 1

----------------------------------------------------------------------------
\* RedisStream.delete(): DEL of the stream key, which removes the entries, the
\* consumer group and its pending list; errors are suppressed. The ids of a
\* later stream are fresh, so nothing is remembered of the acknowledged ones.
delete(c) ==
    /\ conn[c] = "ready"
    /\ stream' = <<>>
    /\ deleted' = {}
    /\ lastId' = 0
    /\ pel' = EmptyMap
    /\ acked' = {}
    /\ grp' = FALSE
    /\ lastRead' = NoRead
    /\ cycle' = NoCycle
    /\ drained' = FALSE
    /\ UNCHANGED <<hot, pc, events, conn, lastInit, lastStore, lastCall, syncVars, lastMetric>>

\* Stream objects of one stream, fresh ones and cached ones that keep their
\* connection, initialise, add, read and delete.
DelNext ==
    \/ \E c \in Consumers : \E op \in {"add", "read"} : \E data \in AddInputs :
          conn_exists(c, op, data)
    \/ \E c \in Consumers : \E data \in AddInputs : conn_create(c, data)
    \/ /\ \E c \in Consumers : conn[c] = "ready"
       /\ Len(stream) < MaxStream
       /\ \E data \in AddInputs : add(data)
    \/ \E c \in Consumers : \E n \in 1..MaxCount : conn[c] = "ready" /\ read_direct(c, n)
    \/ \E c \in Consumers : delete(c)

DelSpec == ConnInit /\ [][DelNext]_vars

\* C38: after any sequence of init, add, read and delete operations on the
\* stream objects of one stream, a cached one that keeps its connection across
\* a delete() included, the consumer group exists whenever the stream key
\* exists, so an entry added after a delete() is delivered by read().
C38_GroupWheneverKey == KeyExists => grp

----------------------------------------------------------------------------
\* C39: no single write of the persisted checkpoint decreases it, under any
\* interleaving of sync runs on the same job: a run that read the checkpoint
\* before it acquired the lock and enters the drain loop after another run
\* advanced it never persists a smaller value than the current one.
C39_CheckpointMonotone == [][job'.checkpoint >= job.checkpoint]_vars

\* C40: at any time at most one sync run record of the table has status
\* 'In Progress': a run that waits for the file lock, or that will end
\* Skipped on lock timeout, is not shown 'In Progress' while another run is.
C40_OneInProgress == Cardinality({r \in Runs : run[r].status = "In Progress"}) <= 1

====
